---- MODULE Spec2Model ----
(***************************************************************************)
(* Model of server/neo4j_patch.py (relationship-type sanitizer, graph      *)
(* payload walker, Cypher query rewriter, monkey-patch installer) and of   *)
(* the startup / request path of server/main.py.                           *)
(*                                                                         *)
(* A Python str is modelled as a sequence of one-character strings.        *)
(***************************************************************************)
EXTENDS Integers, Sequences, FiniteSets, TLC

VARIABLES
    \* sanitize_relationship_type called twice in a row
    relationship_type, sanitized, resanitized, sanPc,
    \* patched_query's rewriting of one statement
    query, sanitized_query, matches, qPc,
    \* sanitize_graph_data applied to one payload
    data, sanitized_data, gPc,
    \* the libraries' classes as the process finds them, and their method slots
    mem0Env, neo4jEnv, GraphMemory_add, Neo4jGraph_query,
    \* the patched_add / patched_query closures created so far: the function
    \* each one captured as original_add / original_query
    addClosures, queryClosures,
    \* the threads that run the installer: program, position, locals
    program, pc, original_add, original_query, completed, log,
    \* the last call made through a method slot
    lastCall,
    \* server/main.py: module start-up, the requests whose dependencies are
    \* resolved and whose handler has not run yet, the last response, the
    \* calls forwarded to MEMORY_INSTANCE and the engine's stored memories
    mainPc, API_KEY, GRAPH_STORE_ENABLED, received, inflight, response,
    forwarded, engineCall, store, graphEntry

sanVars == <<relationship_type, sanitized, resanitized, sanPc>>
queryVars == <<query, sanitized_query, matches, qPc>>
graphVars == <<data, sanitized_data, gPc>>
installVars == <<mem0Env, neo4jEnv, GraphMemory_add, Neo4jGraph_query,
                 addClosures, queryClosures,
                 program, pc, original_add, original_query, completed, log,
                 lastCall>>
mainVars == <<mainPc, API_KEY, GRAPH_STORE_ENABLED, received, inflight,
              response, forwarded, engineCall, store, graphEntry>>
vars == <<sanVars, queryVars, graphVars, installVars, mainVars>>

(***************************************************************************)
(* A component that a specification does not exercise stays idle           *)
(***************************************************************************)
SanIdle ==
    /\ relationship_type = <<>>
    /\ sanitized = <<>>
    /\ resanitized = <<>>
    /\ sanPc = "idle"

QueryIdle ==
    /\ query = <<>>
    /\ sanitized_query = <<>>
    /\ matches = <<>>
    /\ qPc = "idle"

GraphIdle ==
    /\ data = <<>>
    /\ sanitized_data = <<>>
    /\ gPc = "idle"

\* function references: the library's own method, a closure, no such method
Original == <<"original">>
Absent == <<"absent">>
Patched(k) == <<"patched", k>>

NoCall ==
    [kind |-> "none", entry |-> Absent, arg |-> <<>>, extra |-> <<>>,
     orig_calls |-> <<>>, wrappers |-> 0, result |-> <<>>]

InstallIdle ==
    /\ mem0Env = "ok"
    /\ neo4jEnv = "ok"
    /\ GraphMemory_add = Original
    /\ Neo4jGraph_query = Original
    /\ addClosures = <<>>
    /\ queryClosures = <<>>
    /\ program = <<>>
    /\ pc = <<>>
    /\ original_add = <<>>
    /\ original_query = <<>>
    /\ completed = <<>>
    /\ log = <<>>
    /\ lastCall = NoCall

\* the memory ids the engine hands out
MemoryIds == {"m1", "m2"}

\* the engine's stores right after Memory.from_config: nothing stored
EmptyStore == [m \in MemoryIds |-> "absent"]

MainIdle ==
    /\ mainPc = "idle"
    /\ API_KEY = "unset"
    /\ GRAPH_STORE_ENABLED = FALSE
    /\ received = 0
    /\ inflight = <<>>
    /\ response = "none"
    /\ forwarded = 0
    /\ engineCall = "none"
    /\ store = EmptyStore
    /\ graphEntry = Absent

(***************************************************************************)
(* Bounds of the model                                                     *)
(***************************************************************************)
MaxLen == 4
MaxTokenLen == 3
MaxNodes == 4
MaxCallNodes == 3
MaxInstalls == 2
Installers == 2
MaxRequests == 2

\* characters the sanitizer is exercised on: the five it replaces, the
\* underscore it collapses and strips, and one ordinary letter
Alphabet == {":", "/", "\\", " ", "-", "_", "a"}

Strings(alphabet, n) == UNION {[1..k -> alphabet] : k \in 0..n}

(***************************************************************************)
(* Python str primitives                                                   *)
(***************************************************************************)
\* sub in s
Contains(s, sub) ==
    \E i \in 1..(Len(s) - Len(sub) + 1) : SubSeq(s, i, i + Len(sub) - 1) = sub

\* s.replace(old, new) for a non-empty old: leftmost, non-overlapping
RECURSIVE StrReplace(_, _, _)
StrReplace(s, old, new) ==
    IF Len(s) < Len(old) THEN s
    ELSE IF SubSeq(s, 1, Len(old)) = old
         THEN new \o StrReplace(SubSeq(s, Len(old) + 1, Len(s)), old, new)
         ELSE <<Head(s)>> \o StrReplace(Tail(s), old, new)

\* s.lstrip(ch)
RECURSIVE LStrip(_, _)
LStrip(s, ch) ==
    IF s # <<>> /\ Head(s) = ch THEN LStrip(Tail(s), ch) ELSE s

\* s.rstrip(ch)
RECURSIVE RStrip(_, _)
RStrip(s, ch) ==
    IF s # <<>> /\ s[Len(s)] = ch THEN RStrip(SubSeq(s, 1, Len(s) - 1), ch) ELSE s

\* faulty variant: only the left end is stripped
StripLeftOnly(s, ch) == LStrip(s, ch)

\* s.strip(ch)
Strip(s, ch) == RStrip(LStrip(s, ch), ch)

\* s.count(ch) for a single character
RECURSIVE Count(_, _)
Count(s, ch) ==
    IF s = <<>> THEN 0
    ELSE (IF Head(s) = ch THEN 1 ELSE 0) + Count(Tail(s), ch)

(***************************************************************************)
(* sanitize_relationship_type                                              *)
(***************************************************************************)
\* the five ordered single-character replacements
ReplaceChars(s) ==
    LET s1 == StrReplace(s, <<":">>, <<"_">>)
        s2 == StrReplace(s1, <<"/">>, <<"_">>)
        s3 == StrReplace(s2, <<"\\">>, <<"_">>)
        s4 == StrReplace(s3, <<" ">>, <<"_">>)
    IN  StrReplace(s4, <<"-">>, <<"_">>)

\* while '__' in sanitized: sanitized = sanitized.replace('__', '_')
RECURSIVE CollapseUnderscores(_)
CollapseUnderscores(s) ==
    IF Contains(s, <<"_", "_">>)
    THEN CollapseUnderscores(StrReplace(s, <<"_", "_">>, <<"_">>))
    ELSE s

\* faulty variant: the strip runs before the replacements instead of last
sanitize_strip_first(s) ==
    IF s = <<>> THEN s
    ELSE CollapseUnderscores(ReplaceChars(Strip(s, "_")))

sanitize_relationship_type(s) ==
    IF s = <<>> THEN s
    ELSE Strip(CollapseUnderscores(ReplaceChars(s)), "_")

(***************************************************************************)
(* Relationship-Type Token invariant                                       *)
(***************************************************************************)
ForbiddenChars == {":", "/", "\\", " ", "-"}

TokenInvariant(s) ==
    /\ \A i \in 1..Len(s) : s[i] \notin ForbiddenChars
    /\ ~Contains(s, <<"_", "_">>)
    /\ (s # <<>> => s[1] # "_" /\ s[Len(s)] # "_")

(***************************************************************************)
(* patch_neo4j_queries.patched_query: the Cypher statement rewriter        *)
(***************************************************************************)
NoMatch == [ok |-> FALSE, group_start |-> 0, group_end |-> 0, end |-> 0]

\* index of the first ']' of q at or after position i, Len(q) + 1 if none
RECURSIVE FirstBracket(_, _)
FirstBracket(q, i) ==
    IF i > Len(q) THEN Len(q) + 1
    ELSE IF q[i] = "]" THEN i
    ELSE FirstBracket(q, i + 1)

\* a match of  -\[(?:r)?:([^\]]+)\]->  that starts at position i of q
EdgeMatch(q, i) ==
    LET n == Len(q)
        at(k) == IF k <= n THEN q[k] ELSE ""
        gs == IF at(i + 2) = "r" /\ at(i + 3) = ":" THEN i + 4
              ELSE IF at(i + 2) = ":" THEN i + 3
              ELSE 0
        j == FirstBracket(q, gs)
    IN  IF /\ at(i) = "-" /\ at(i + 1) = "["
           /\ gs # 0
           /\ j > gs /\ j <= n
           /\ at(j + 1) = "-" /\ at(j + 2) = ">"
        THEN [ok |-> TRUE, group_start |-> gs, group_end |-> j - 1, end |-> j + 2]
        ELSE NoMatch

\* full_match.replace(rel_type, sanitize_relationship_type(rel_type))
replace_relationship_type(full_match, rel_type) ==
    StrReplace(full_match, rel_type, sanitize_relationship_type(rel_type))

\* re.sub(pattern, replace_relationship_type, query), scanning from position i
RECURSIVE ReSubFrom(_, _)
ReSubFrom(q, i) ==
    IF i > Len(q) THEN <<>>
    ELSE LET m == EdgeMatch(q, i)
         IN  IF m.ok
             THEN replace_relationship_type(SubSeq(q, i, m.end),
                                            SubSeq(q, m.group_start, m.group_end))
                      \o ReSubFrom(q, m.end + 1)
             ELSE <<q[i]>> \o ReSubFrom(q, i + 1)

\* the statement patched_query hands to original_query
RewriteQuery(q) == ReSubFrom(q, 1)

\* the calls re.sub makes to replace_relationship_type, left to right
RECURSIVE MatchCallsFrom(_, _)
MatchCallsFrom(q, i) ==
    IF i > Len(q) THEN <<>>
    ELSE LET m == EdgeMatch(q, i)
         IN  IF m.ok
             THEN LET full == SubSeq(q, i, m.end)
                      rel == SubSeq(q, m.group_start, m.group_end)
                  IN  <<[full_match |-> full,
                         rel_type |-> rel,
                         group_offset |-> m.group_start - i,
                         replacement |-> replace_relationship_type(full, rel)]>>
                          \o MatchCallsFrom(q, m.end + 1)
             ELSE MatchCallsFrom(q, i + 1)

(***************************************************************************)
(* Relationship-pattern clauses of a statement:                            *)
(*   '-[' optional-variable ':' TOKEN ']->'                                *)
(***************************************************************************)
IdentChars == {"a", "b", "r", "x", "_"}

\* first position at or after i whose character is not an identifier character
RECURSIVE IdentEnd(_, _)
IdentEnd(q, i) ==
    IF i > Len(q) THEN i
    ELSE IF q[i] \in IdentChars THEN IdentEnd(q, i + 1)
    ELSE i

\* the clause that starts at position i of q, with any variable name
ClauseAt(q, i) ==
    LET n == Len(q)
        at(k) == IF k <= n THEN q[k] ELSE ""
        c == IdentEnd(q, i + 2)
        j == FirstBracket(q, c + 1)
    IN  IF /\ at(i) = "-" /\ at(i + 1) = "["
           /\ at(c) = ":"
           /\ j > c + 1 /\ j <= n
           /\ at(j + 1) = "-" /\ at(j + 2) = ">"
        THEN [ok |-> TRUE, variable |-> SubSeq(q, i + 2, c - 1),
              token |-> SubSeq(q, c + 1, j - 1)]
        ELSE [ok |-> FALSE, variable |-> <<>>, token |-> <<>>]

(***************************************************************************)
(* Specification SpecQuery: one statement through the rewriter             *)
(***************************************************************************)
TokenAlphabet == {":", "-", "[", "_", "r", "a"}
Variables == {<<>>, <<"r">>, <<"x">>}
Arrow == <<"]", "-", ">">>

\* text around the clause under test: nothing, a dangling dash, a clause that
\* needs rewriting, and a reverse-direction edge
Fillers ==
    { <<>>,
      <<"-">>,
      <<"-", "[", "r", ":", "a", ":", "b", "]", "-", ">">>,
      <<"<", "-", "[", "r", ":", "a", ":", "b", "]", "-">> }

Clause(var, tok) == <<"-", "[">> \o var \o <<":">> \o tok \o Arrow

Queries ==
    { pre \o Clause(var, tok) \o post :
        pre \in Fillers, var \in Variables,
        tok \in Strings(TokenAlphabet, MaxTokenLen), post \in Fillers }

InitQuery ==
    /\ SanIdle /\ GraphIdle /\ InstallIdle /\ MainIdle
    /\ query \in Queries
    /\ sanitized_query = <<>>
    /\ matches = <<>>
    /\ qPc = "input"

PatchedQuery ==
    /\ qPc = "input"
    /\ sanitized_query' = RewriteQuery(query)
    /\ matches' = MatchCallsFrom(query, 1)
    /\ qPc' = "done"
    /\ UNCHANGED query
    /\ UNCHANGED <<sanVars, graphVars, installVars, mainVars>>

NextQuery == PatchedQuery

SpecQuery == InitQuery /\ [][NextQuery]_vars

\* C3: for every substring matched by the edge pattern only the TOKEN part
\* is replaced by its sanitized form; the leading '-[', the variable
\* binding, the ':' separator and the closing ']->' are kept as they were.
C3_OnlyTokenReplaced ==
    qPc = "done" =>
        \A k \in 1..Len(matches) :
            matches[k].replacement =
                SubSeq(matches[k].full_match, 1, matches[k].group_offset)
                    \o sanitize_relationship_type(matches[k].rel_type)
                    \o Arrow

\* C4: after the rewriter ran, every clause '-[' optional-variable ':' TOKEN
\* ']->' of the statement handed to the original entry point has a TOKEN
\* that satisfies the Token invariant, whatever the variable's name.
C4_EveryClauseSanitized ==
    qPc = "done" =>
        \A i \in 1..Len(sanitized_query) :
            ClauseAt(sanitized_query, i).ok =>
                TokenInvariant(ClauseAt(sanitized_query, i).token)

(***************************************************************************)
(* Graph payloads: mappings (ordered entries with distinct keys), lists,   *)
(* strings and other scalars                                               *)
(***************************************************************************)
Str(s) == [type |-> "str", val |-> s]
Num(n) == [type |-> "num", val |-> n]
List(items) == [type |-> "list", val |-> items]
Dict(entries) == [type |-> "dict", val |-> entries]
Entry(k, v) == [key |-> k, value |-> v]
None == [type |-> "none", val |-> <<>>]

(***************************************************************************)
(* sanitize_graph_data                                                     *)
(***************************************************************************)
\* the keys whose string value is sanitized as a literal relationship type
DesignatorKeys ==
    {"relationship", "relation", "rel_type", "type", "relationship_type"}

\* faulty variant: any colon at all triggers the heuristic
HasAnyColon(s) == Count(s, ":") > 0

\* the heuristic on a free-standing string: data.count(':') > 1
LooksLikeRelationshipType(s) == Count(s, ":") > 1

\* faulty variant: the walker without the designator-key branch
RECURSIVE sanitize_graph_data_heuristic_only(_)
sanitize_graph_data_heuristic_only(d) ==
    IF d.type = "dict"
    THEN Dict([i \in 1..Len(d.val) |->
                 Entry(d.val[i].key,
                       sanitize_graph_data_heuristic_only(d.val[i].value))])
    ELSE IF d.type = "list"
    THEN List([i \in 1..Len(d.val) |-> sanitize_graph_data_heuristic_only(d.val[i])])
    ELSE IF d.type = "str"
    THEN (IF LooksLikeRelationshipType(d.val)
          THEN Str(sanitize_relationship_type(d.val))
          ELSE d)
    ELSE d

RECURSIVE sanitize_graph_data(_)
sanitize_graph_data(d) ==
    IF d.type = "dict"
    THEN Dict([i \in 1..Len(d.val) |->
                 LET key == d.val[i].key
                     value == d.val[i].value
                 IN  IF key \in DesignatorKeys
                     THEN (IF value.type = "str"
                           THEN Entry(key, Str(sanitize_relationship_type(value.val)))
                           ELSE Entry(key, sanitize_graph_data(value)))
                     ELSE Entry(key, sanitize_graph_data(value))])
    ELSE IF d.type = "list"
    THEN List([i \in 1..Len(d.val) |-> sanitize_graph_data(d.val[i])])
    ELSE IF d.type = "str"
    THEN (IF LooksLikeRelationshipType(d.val)
          THEN Str(sanitize_relationship_type(d.val))
          ELSE d)
    ELSE d

(***************************************************************************)
(* Specification SpecGraph: one payload through the walker                 *)
(***************************************************************************)
Leaves ==
    { Str(<<"a">>),
      Str(<<"a", ":", "b">>),
      Str(<<"a", ":", "b", ":", "c">>),
      Num(1) }

PayloadKeys == {"type", "note"}

\* the ways to give distinct keys, in order, to the values of forest f
Keyed(f) ==
    { [i \in 1..Len(f) |-> Entry(ks[i], f[i])] :
        ks \in { k \in [1..Len(f) -> PayloadKeys] :
                   \A i, j \in 1..Len(f) : i # j => k[i] # k[j] } }

\* Trees(n): the payloads with exactly n nodes;
\* Forests(m): the sequences of payloads with m nodes in all
RECURSIVE Trees(_), Forests(_)
Trees(n) ==
    IF n = 1 THEN Leaves \cup {List(<<>>), Dict(<<>>)}
    ELSE {List(f) : f \in Forests(n - 1)}
         \cup UNION {{Dict(e) : e \in Keyed(f)} : f \in Forests(n - 1)}

Forests(m) ==
    IF m = 0 THEN {<<>>}
    ELSE UNION {{<<t>> \o f : t \in Trees(k), f \in Forests(m - k)} : k \in 1..m}

Payloads == UNION {Trees(n) : n \in 1..MaxNodes}

InitGraph ==
    /\ SanIdle /\ QueryIdle /\ InstallIdle /\ MainIdle
    /\ data \in Payloads
    /\ sanitized_data = <<>>
    /\ gPc = "input"

SanitizeGraphData ==
    /\ gPc = "input"
    /\ sanitized_data' = sanitize_graph_data(data)
    /\ gPc' = "done"
    /\ UNCHANGED data
    /\ UNCHANGED <<sanVars, queryVars, installVars, mainVars>>

NextGraph == SanitizeGraphData

SpecGraph == InitGraph /\ [][NextGraph]_vars

\* every string at or below d
RECURSIVE StringsIn(_)
StringsIn(d) ==
    IF d.type = "dict"
    THEN UNION {StringsIn(d.val[i].value) : i \in 1..Len(d.val)}
    ELSE IF d.type = "list"
    THEN UNION {StringsIn(d.val[i]) : i \in 1..Len(d.val)}
    ELSE IF d.type = "str" THEN {d.val}
    ELSE {}

\* every string reachable under a designator key of d, at any depth below it
RECURSIVE UnderDesignator(_)
UnderDesignator(d) ==
    IF d.type = "dict"
    THEN UNION {IF d.val[i].key \in DesignatorKeys
                THEN StringsIn(d.val[i].value)
                ELSE UnderDesignator(d.val[i].value) : i \in 1..Len(d.val)}
    ELSE IF d.type = "list"
    THEN UNION {UnderDesignator(d.val[i]) : i \in 1..Len(d.val)}
    ELSE {}

\* every string that is the direct value of a designator key in d
RECURSIVE DirectDesignated(_)
DirectDesignated(d) ==
    IF d.type = "dict"
    THEN UNION {IF d.val[i].key \in DesignatorKeys /\ d.val[i].value.type = "str"
                THEN {d.val[i].value.val}
                ELSE DirectDesignated(d.val[i].value) : i \in 1..Len(d.val)}
    ELSE IF d.type = "list"
    THEN UNION {DirectDesignated(d.val[i]) : i \in 1..Len(d.val)}
    ELSE {}

\* every string of d that is not the direct value of a designator key
RECURSIVE FreeStanding(_)
FreeStanding(d) ==
    IF d.type = "dict"
    THEN UNION {IF d.val[i].key \in DesignatorKeys /\ d.val[i].value.type = "str"
                THEN {}
                ELSE FreeStanding(d.val[i].value) : i \in 1..Len(d.val)}
    ELSE IF d.type = "list"
    THEN UNION {FreeStanding(d.val[i]) : i \in 1..Len(d.val)}
    ELSE IF d.type = "str" THEN {d.val}
    ELSE {}

MultiColonSanitized(d) ==
    \A s \in FreeStanding(d) : Count(s, ":") > 1 => TokenInvariant(s)

\* C5 as stated: in the walker's result every string reachable under a
\* designator key, strings nested in a list or mapping under it included,
\* satisfies the Token invariant, and so does every free-standing string
\* with more than one colon.
C5_AllUnderDesignatorSanitized ==
    gPc = "done" =>
        /\ \A s \in UnderDesignator(sanitized_data) : TokenInvariant(s)
        /\ MultiColonSanitized(sanitized_data)

\* C5 amended: in the walker's result every string that is the direct value
\* of a designator key satisfies the Token invariant, and so does every
\* other string with more than one colon.
C5_DirectDesignatedSanitized ==
    gPc = "done" =>
        /\ \A s \in DirectDesignated(sanitized_data) : TokenInvariant(s)
        /\ MultiColonSanitized(sanitized_data)

C5_Witness ==
    /\ gPc = "done"
    /\ data = Dict(<<Entry("type", Str(<<"a", ":", "b">>)),
                     Entry("note", List(<<Str(<<"a", ":", "b", ":", "c">>)>>))>>)
    /\ sanitized_data = Dict(<<Entry("type", Str(<<"a", "_", "b">>)),
                               Entry("note", List(<<Str(<<"a", "_", "b", "_", "c">>)>>))>>)

\* p and o have the same shape, and a leaf of o differs from p's only where
\* it is a string directly under a designator key or has more than one colon
RECURSIVE Fidelity(_, _, _)
Fidelity(p, o, designated) ==
    /\ o.type = p.type
    /\ IF p.type = "dict"
       THEN /\ Len(o.val) = Len(p.val)
            /\ \A i \in 1..Len(p.val) :
                  /\ o.val[i].key = p.val[i].key
                  /\ Fidelity(p.val[i].value, o.val[i].value,
                              p.val[i].key \in DesignatorKeys)
       ELSE IF p.type = "list"
       THEN /\ Len(o.val) = Len(p.val)
            /\ \A i \in 1..Len(p.val) : Fidelity(p.val[i], o.val[i], FALSE)
       ELSE IF p.type = "str"
       THEN o = p \/ designated \/ Count(p.val, ":") > 1
       ELSE o = p

\* C6: the walker's result has the same keys in the same order and the same
\* list lengths as the payload at every level, and a leaf differs only if it
\* is a string directly under a designator key or a string with more than
\* one colon.
C6_StructuralFidelity ==
    gPc = "done" => Fidelity(data, sanitized_data, FALSE)

C6_Witness ==
    /\ gPc = "done"
    /\ data = Dict(<<Entry("note", Str(<<"a", ":", "b">>)),
                     Entry("type", List(<<Str(<<"a", ":", "b">>)>>))>>)
    /\ sanitized_data = data

(***************************************************************************)
(* patch_mem0_graph, patch_neo4j_queries, apply_all_patches                *)
(***************************************************************************)
\* what the library looks like to the installer: importable with the method,
\* not importable, importable without the method, or failing otherwise
Envs == {"ok", "import_error", "no_method", "error"}

\* the exception the try block raises before it has read the method slot
RaisedBy(env) ==
    IF env = "import_error" THEN "ImportError"
    ELSE IF env = "no_method" THEN "AttributeError"
    ELSE IF env = "error" THEN "RuntimeError"
    ELSE "none"

\* faulty variant: only ImportError is caught
except_import_error_only(exc) ==
    IF exc = "ImportError" THEN "warning" ELSE "propagate"

\* except ImportError: logger.warning / except Exception: logger.error
except_clauses(exc) ==
    IF exc = "ImportError" THEN "warning" ELSE "error"

\* faulty variant: the wrapper calls whatever the slot holds when it runs
captured_late_bound(read, self) == self

\* the function a new closure delegates to: the value read into
\* original_add / original_query before the closure was defined
captured(read, self) == read

\* faulty variant: the payload is passed on as received
patched_add_passthrough(d) == d

\* sanitized_data = sanitize_graph_data(data)
patched_add_argument(d) == sanitize_graph_data(d)

\* sanitized_query = re.sub(pattern, replace_relationship_type, query)
patched_query_argument(q) == RewriteQuery(q)

\* what the library's own add / query return for the arguments they receive
OriginalResult(name, arg, extra) == <<name, arg, extra>>

Running(p) == pc[p] \notin {"ready", "returned", "raised"}
NoInstallRunning == \A p \in DOMAIN pc : ~Running(p)

\* where a thread goes when patch_mem0_graph returns
AfterMem0(p) ==
    IF program[p] = "apply_all_patches" THEN "patch_neo4j_queries" ELSE "returned"

DoneAfterMem0(p) ==
    IF program[p] = "apply_all_patches" THEN completed[p] ELSE completed[p] + 1

\* apply_all_patches() is called
ApplyAllPatches(p) ==
    /\ program[p] = "apply_all_patches"
    /\ pc[p] \in {"ready", "returned"}
    /\ completed[p] < MaxInstalls
    /\ lastCall.kind = "none"
    /\ pc' = [pc EXCEPT ![p] = "patch_mem0_graph"]
    /\ UNCHANGED <<mem0Env, neo4jEnv, GraphMemory_add, Neo4jGraph_query,
                   addClosures, queryClosures, program, original_add,
                   original_query, completed, log, lastCall>>
    /\ UNCHANGED <<sanVars, queryVars, graphVars, mainVars>>

\* patch_mem0_graph() is called on its own
CallPatchMem0Graph(p) ==
    /\ program[p] = "patch_mem0_graph"
    /\ pc[p] = "ready"
    /\ lastCall.kind = "none"
    /\ pc' = [pc EXCEPT ![p] = "patch_mem0_graph"]
    /\ UNCHANGED <<mem0Env, neo4jEnv, GraphMemory_add, Neo4jGraph_query,
                   addClosures, queryClosures, program, original_add,
                   original_query, completed, log, lastCall>>
    /\ UNCHANGED <<sanVars, queryVars, graphVars, mainVars>>

\* patch_mem0_graph up to  original_add = GraphMemory.add
Mem0Read(p) ==
    /\ pc[p] = "patch_mem0_graph"
    /\ LET exc == RaisedBy(mem0Env)
       IN  IF exc = "none"
           THEN /\ original_add' = [original_add EXCEPT ![p] = GraphMemory_add]
                /\ pc' = [pc EXCEPT ![p] = "mem0_write"]
                /\ UNCHANGED <<completed, log>>
           ELSE IF except_clauses(exc) = "propagate"
           THEN /\ pc' = [pc EXCEPT ![p] = "raised"]
                /\ UNCHANGED <<original_add, completed, log>>
           ELSE /\ log' = Append(log, <<"mem0", except_clauses(exc)>>)
                /\ pc' = [pc EXCEPT ![p] = AfterMem0(p)]
                /\ completed' = [completed EXCEPT ![p] = DoneAfterMem0(p)]
                /\ UNCHANGED original_add
    /\ UNCHANGED <<mem0Env, neo4jEnv, GraphMemory_add, Neo4jGraph_query,
                   addClosures, queryClosures, program, original_query, lastCall>>
    /\ UNCHANGED <<sanVars, queryVars, graphVars, mainVars>>

\* patch_mem0_graph from  def patched_add  to  GraphMemory.add = patched_add
Mem0Write(p) ==
    /\ pc[p] = "mem0_write"
    /\ LET self == Patched(Len(addClosures) + 1)
       IN  /\ addClosures' = Append(addClosures, captured(original_add[p], self))
           /\ GraphMemory_add' = self
    /\ log' = Append(log, <<"mem0", "info">>)
    /\ pc' = [pc EXCEPT ![p] = AfterMem0(p)]
    /\ completed' = [completed EXCEPT ![p] = DoneAfterMem0(p)]
    /\ UNCHANGED <<mem0Env, neo4jEnv, Neo4jGraph_query, queryClosures, program,
                   original_add, original_query, lastCall>>
    /\ UNCHANGED <<sanVars, queryVars, graphVars, mainVars>>

\* patch_neo4j_queries up to  original_query = Neo4jGraph.query
Neo4jRead(p) ==
    /\ pc[p] = "patch_neo4j_queries"
    /\ LET exc == RaisedBy(neo4jEnv)
       IN  IF exc = "none"
           THEN /\ original_query' = [original_query EXCEPT ![p] = Neo4jGraph_query]
                /\ pc' = [pc EXCEPT ![p] = "neo4j_write"]
                /\ UNCHANGED <<completed, log>>
           ELSE IF except_clauses(exc) = "propagate"
           THEN /\ pc' = [pc EXCEPT ![p] = "raised"]
                /\ UNCHANGED <<original_query, completed, log>>
           ELSE /\ log' = Append(log, <<"neo4j", except_clauses(exc)>>)
                /\ pc' = [pc EXCEPT ![p] = "returned"]
                /\ completed' = [completed EXCEPT ![p] = completed[p] + 1]
                /\ UNCHANGED original_query
    /\ UNCHANGED <<mem0Env, neo4jEnv, GraphMemory_add, Neo4jGraph_query,
                   addClosures, queryClosures, program, original_add, lastCall>>
    /\ UNCHANGED <<sanVars, queryVars, graphVars, mainVars>>

\* patch_neo4j_queries from  def patched_query  to  Neo4jGraph.query =
\* patched_query, and the return of apply_all_patches
Neo4jWrite(p) ==
    /\ pc[p] = "neo4j_write"
    /\ LET self == Patched(Len(queryClosures) + 1)
       IN  /\ queryClosures' = Append(queryClosures, captured(original_query[p], self))
           /\ Neo4jGraph_query' = self
    /\ log' = Append(log, <<"neo4j", "info">>)
    /\ pc' = [pc EXCEPT ![p] = "returned"]
    /\ completed' = [completed EXCEPT ![p] = completed[p] + 1]
    /\ UNCHANGED <<mem0Env, neo4jEnv, GraphMemory_add, addClosures, program,
                   original_add, original_query, lastCall>>
    /\ UNCHANGED <<sanVars, queryVars, graphVars, mainVars>>

\* a call add(data, filters) that enters at function ref: every closure on
\* the way sanitizes and delegates to the function it captured; fuel bounds
\* the nesting (Python's recursion limit)
RECURSIVE InvokeAdd(_, _, _, _)
InvokeAdd(ref, d, filters, fuel) ==
    IF ref = Original
    THEN [orig_calls |-> <<[arg |-> d, extra |-> filters]>>, wrappers |-> 0,
          result |-> OriginalResult("add", d, filters)]
    ELSE IF fuel = 0
    THEN [orig_calls |-> <<>>, wrappers |-> 0, result |-> <<"RecursionError">>]
    ELSE LET r == InvokeAdd(addClosures[ref[2]], patched_add_argument(d),
                            filters, fuel - 1)
         IN  [r EXCEPT !.wrappers = @ + 1]

\* a call query(query, params) that enters at function ref
RECURSIVE InvokeQuery(_, _, _, _)
InvokeQuery(ref, q, params, fuel) ==
    IF ref = Original
    THEN [orig_calls |-> <<[arg |-> q, extra |-> params]>>, wrappers |-> 0,
          result |-> OriginalResult("query", q, params)]
    ELSE IF fuel = 0
    THEN [orig_calls |-> <<>>, wrappers |-> 0, result |-> <<"RecursionError">>]
    ELSE LET r == InvokeQuery(queryClosures[ref[2]], patched_query_argument(q),
                              params, fuel - 1)
         IN  [r EXCEPT !.wrappers = @ + 1]

CallPayloads == UNION {Trees(n) : n \in 1..MaxCallNodes}

\* filters / params: None, or a mapping whose value looks like a relationship
Extras ==
    { None,
      Dict(<<Entry("type", Str(<<"a", ":", "b", ":", "c">>))>>) }

CallQueries ==
    { Clause(var, tok) :
        var \in Variables, tok \in Strings(TokenAlphabet, MaxTokenLen) }

\* GraphMemory.add(self, data, filters) is called while no install is running
CallAdd ==
    /\ NoInstallRunning
    /\ lastCall.kind = "none"
    /\ GraphMemory_add # Absent
    /\ \E d \in CallPayloads, f \in Extras :
          LET r == InvokeAdd(GraphMemory_add, d, f, Len(addClosures) + 1)
          IN  lastCall' = [kind |-> "add", entry |-> GraphMemory_add,
                           arg |-> d, extra |-> f,
                           orig_calls |-> r.orig_calls,
                           wrappers |-> r.wrappers, result |-> r.result]
    /\ UNCHANGED <<mem0Env, neo4jEnv, GraphMemory_add, Neo4jGraph_query,
                   addClosures, queryClosures, program, pc, original_add,
                   original_query, completed, log>>
    /\ UNCHANGED <<sanVars, queryVars, graphVars, mainVars>>

\* Neo4jGraph.query(self, query, params) is called while no install is running
CallQuery ==
    /\ NoInstallRunning
    /\ lastCall.kind = "none"
    /\ Neo4jGraph_query # Absent
    /\ \E q \in CallQueries, f \in Extras :
          LET r == InvokeQuery(Neo4jGraph_query, q, f, Len(queryClosures) + 1)
          IN  lastCall' = [kind |-> "query", entry |-> Neo4jGraph_query,
                           arg |-> q, extra |-> f,
                           orig_calls |-> r.orig_calls,
                           wrappers |-> r.wrappers, result |-> r.result]
    /\ UNCHANGED <<mem0Env, neo4jEnv, GraphMemory_add, Neo4jGraph_query,
                   addClosures, queryClosures, program, pc, original_add,
                   original_query, completed, log>>
    /\ UNCHANGED <<sanVars, queryVars, graphVars, mainVars>>

\* the caller has taken the result of the last call
ReturnToCaller ==
    /\ lastCall.kind # "none"
    /\ lastCall' = NoCall
    /\ UNCHANGED <<mem0Env, neo4jEnv, GraphMemory_add, Neo4jGraph_query,
                   addClosures, queryClosures, program, pc, original_add,
                   original_query, completed, log>>
    /\ UNCHANGED <<sanVars, queryVars, graphVars, mainVars>>

SlotFor(env) == IF env = "ok" THEN Original ELSE Absent

(***************************************************************************)
(* Specification SpecInstall: apply_all_patches called up to MaxInstalls   *)
(* times in sequence by one thread, and calls through the method slots     *)
(***************************************************************************)
InitInstall ==
    /\ SanIdle /\ QueryIdle /\ GraphIdle /\ MainIdle
    /\ mem0Env \in Envs
    /\ neo4jEnv \in Envs
    /\ GraphMemory_add = SlotFor(mem0Env)
    /\ Neo4jGraph_query = SlotFor(neo4jEnv)
    /\ addClosures = <<>>
    /\ queryClosures = <<>>
    /\ program = <<"apply_all_patches">>
    /\ pc = <<"ready">>
    /\ original_add = <<Absent>>
    /\ original_query = <<Absent>>
    /\ completed = <<0>>
    /\ log = <<>>
    /\ lastCall = NoCall

NextInstall ==
    \/ \E p \in DOMAIN pc : ApplyAllPatches(p)
    \/ \E p \in DOMAIN pc : Mem0Read(p)
    \/ \E p \in DOMAIN pc : Mem0Write(p)
    \/ \E p \in DOMAIN pc : Neo4jRead(p)
    \/ \E p \in DOMAIN pc : Neo4jWrite(p)
    \/ CallAdd
    \/ CallQuery
    \/ ReturnToCaller

SpecInstall == InitInstall /\ [][NextInstall]_vars

IsPatched(ref) == Len(ref) = 2 /\ ref[1] = "patched"

\* C7: apply_all_patches never raises, and whatever happened to the
\* ingestion sub-installation (patched, target absent, other exception), a
\* completed call has replaced the query entry point when its target exists.
C7_SubInstallationsIndependent ==
    \A p \in DOMAIN pc :
        /\ pc[p] # "raised"
        /\ (program[p] = "apply_all_patches" /\ completed[p] >= 1 /\ neo4jEnv = "ok")
              => IsPatched(Neo4jGraph_query)

C7_Witness ==
    /\ mem0Env = "no_method"
    /\ neo4jEnv = "ok"
    /\ pc = <<"returned">>
    /\ completed = <<1>>
    /\ log = <<<<"mem0", "error">>, <<"neo4j", "info">>>>
    /\ Neo4jGraph_query = Patched(1)
    /\ GraphMemory_add = Absent

\* C8: after one or more completed installs, a call through a patched entry
\* point invokes the original exactly once, with the payload equal to one
\* application of sanitize_graph_data (the statement equal to one
\* application of the rewriter) and the same filters (params), and returns
\* the original's result.
C8_WrapperDelegatesOnce ==
    (lastCall.kind # "none" /\ IsPatched(lastCall.entry)) =>
        /\ Len(lastCall.orig_calls) = 1
        /\ lastCall.orig_calls[1].extra = lastCall.extra
        /\ lastCall.kind = "add" =>
              /\ lastCall.orig_calls[1].arg = sanitize_graph_data(lastCall.arg)
              /\ lastCall.result =
                    OriginalResult("add", lastCall.orig_calls[1].arg, lastCall.extra)
        /\ lastCall.kind = "query" =>
              /\ lastCall.orig_calls[1].arg = RewriteQuery(lastCall.arg)
              /\ lastCall.result =
                    OriginalResult("query", lastCall.orig_calls[1].arg, lastCall.extra)

C8_Witness ==
    /\ completed = <<2>>
    /\ lastCall.kind = "query"
    /\ lastCall.entry = Patched(2)
    /\ lastCall.wrappers = 2
    /\ lastCall.arg = Clause(<<"r">>, <<"a", ":", "a">>)
    /\ lastCall.orig_calls[1].arg = Clause(<<"r">>, <<"a", "_", "a">>)

(***************************************************************************)
(* Specification SpecRace: Installers threads each call patch_mem0_graph   *)
(* once, interleaved at the read and the write of the slot, and add is     *)
(* called once they have all returned                                      *)
(***************************************************************************)
Threads == 1..Installers

InitRace ==
    /\ SanIdle /\ QueryIdle /\ GraphIdle /\ MainIdle
    /\ mem0Env \in Envs
    /\ neo4jEnv = "ok"
    /\ GraphMemory_add = SlotFor(mem0Env)
    /\ Neo4jGraph_query = Original
    /\ addClosures = <<>>
    /\ queryClosures = <<>>
    /\ program = [p \in Threads |-> "patch_mem0_graph"]
    /\ pc = [p \in Threads |-> "ready"]
    /\ original_add = [p \in Threads |-> Absent]
    /\ original_query = [p \in Threads |-> Absent]
    /\ completed = [p \in Threads |-> 0]
    /\ log = <<>>
    /\ lastCall = NoCall

AllReturned == \A p \in DOMAIN pc : pc[p] = "returned"

NextRace ==
    \/ \E p \in DOMAIN pc : CallPatchMem0Graph(p)
    \/ \E p \in DOMAIN pc : Mem0Read(p)
    \/ \E p \in DOMAIN pc : Mem0Write(p)
    \/ CallAdd
    \/ ReturnToCaller

SpecRace == InitRace /\ [][NextRace]_vars

\* the function reached from ref after following n delegations
RECURSIVE Delegate(_, _)
Delegate(ref, n) ==
    IF n = 0 \/ ~IsPatched(ref) THEN ref
    ELSE Delegate(addClosures[ref[2]], n - 1)

\* C10: once all concurrent patch_mem0_graph invocations have finished, the
\* slot holds a sanitizing wrapper whose delegation chain is finite, has no
\* cycle and ends at the original; a later add call is sanitized at least
\* once and reaches the original exactly once.
C10_RaceLeavesSanitizingChain ==
    (AllReturned /\ mem0Env = "ok") =>
        /\ IsPatched(GraphMemory_add)
        /\ Delegate(GraphMemory_add, Len(addClosures)) = Original
        /\ lastCall.kind = "add" =>
              /\ lastCall.wrappers >= 1
              /\ Len(lastCall.orig_calls) = 1
              /\ lastCall.orig_calls[1].arg = sanitize_graph_data(lastCall.arg)

\* both threads read the original before either wrote: one patch is lost
C10_Witness ==
    /\ AllReturned
    /\ mem0Env = "ok"
    /\ Len(addClosures) >= 2
    /\ addClosures[1] = Original
    /\ addClosures[2] = Original
    /\ lastCall.kind = "add"
    /\ lastCall.wrappers = 1
    /\ lastCall.arg = Dict(<<Entry("type", Str(<<"a", ":", "b">>))>>)

(***************************************************************************)
(* server/main.py: module start-up, verify_api_key and the route handlers  *)
(***************************************************************************)
\* verify_api_key: None when no key is configured, else the Authorization
\* header must be "Bearer <key>" or "Token <key>"
verify_api_key(key, req) ==
    IF key = "unset" THEN "pass"
    ELSE IF req.scheme = "none" THEN "401"
    ELSE IF req.scheme \notin {"Bearer", "Token"} THEN "401"
    ELSE IF req.token # key THEN "401"
    ELSE "pass"

MainFrame == UNCHANGED <<sanVars, queryVars, graphVars, installVars>>

\* load_dotenv() and the os.environ reads up to the graph_store switch
LoadConfig ==
    /\ mainPc = "import"
    /\ API_KEY' \in {"unset", "secret"}
    /\ GRAPH_STORE_ENABLED' \in BOOLEAN
    /\ mainPc' = "configured"
    /\ UNCHANGED <<received, inflight, response, forwarded, engineCall, store,
                   graphEntry>>
    /\ MainFrame

\* MEMORY_INSTANCE = Memory.from_config(DEFAULT_CONFIG); app = FastAPI(...)
\* and the route decorators: the module is loaded and requests are served
CreateMemoryAndApp ==
    /\ mainPc = "configured"
    /\ mainPc' = "serving"
    /\ store' = EmptyStore
    /\ UNCHANGED <<API_KEY, GRAPH_STORE_ENABLED, received, inflight, response,
                   forwarded, engineCall, graphEntry>>
    /\ MainFrame

\* the routes that declare auth = Depends(verify_api_key)
Routes ==
    {"add_memory", "get_all_memories", "get_memory", "search_memories",
     "update_memory", "memory_history", "delete_memory",
     "delete_all_memories", "reset_memory"}

\* the routes whose handler checks any([user_id, agent_id, run_id])
IdentifierRoutes == {"add_memory", "get_all_memories", "delete_all_memories"}

\* the routes with a {memory_id} path parameter
MemoryIdRoutes ==
    {"get_memory", "update_memory", "memory_history", "delete_memory"}

\* a request: its route, its Authorization header, whether it carries one
\* of user_id / agent_id / run_id, and its memory_id path parameter
Requests ==
    {r \in [route : Routes,
            scheme : {"none", "Bearer", "Token", "Basic"},
            token : {"secret", "wrong"},
            has_id : BOOLEAN,
            memory_id : MemoryIds \cup {"none"}] :
        /\ r.has_id => r.route \in IdentifierRoutes
        /\ (r.memory_id # "none") <=> (r.route \in MemoryIdRoutes)}

\* a request arrives and its dependency verify_api_key is resolved; the
\* handler is run later, as a separate call on the thread pool, so other
\* requests are served between the key check and the handler
ResolveDependencies ==
    /\ mainPc = "serving"
    /\ received < MaxRequests
    /\ received' = received + 1
    /\ \E req \in Requests :
          IF verify_api_key(API_KEY, req) = "401"
          THEN /\ response' = "401"
               /\ UNCHANGED inflight
          ELSE /\ inflight' = Append(inflight,
                                     [route |-> req.route,
                                      has_id |-> req.has_id,
                                      memory_id |-> req.memory_id,
                                      stage |-> "handler",
                                      status |-> "none"])
               /\ UNCHANGED response
    /\ UNCHANGED <<mainPc, API_KEY, GRAPH_STORE_ENABLED, forwarded, engineCall,
                   store, graphEntry>>
    /\ MainFrame

\* the requests still in flight once request i is answered
WithoutRequest(i) ==
    SubSeq(inflight, 1, i - 1) \o SubSeq(inflight, i + 1, Len(inflight))

\* the thread pool starts the handler of request i
Handles(i, route) ==
    /\ mainPc = "serving"
    /\ i \in DOMAIN inflight
    /\ inflight[i].route = route
    /\ inflight[i].stage = "handler"

\* raise HTTPException(status_code=400, ...) ahead of the try block
Raise400(i) ==
    /\ response' = "400"
    /\ inflight' = WithoutRequest(i)
    /\ UNCHANGED <<forwarded, engineCall>>

\* the handler enters MEMORY_INSTANCE.<method>(...) and waits there on its
\* thread; the other requests go on meanwhile
Forward(i, method) ==
    /\ forwarded' = forwarded + 1
    /\ engineCall' = method
    /\ inflight' = [inflight EXCEPT ![i].stage = "called"]
    /\ UNCHANGED response

HandlerFrame ==
    /\ UNCHANGED <<mainPc, API_KEY, GRAPH_STORE_ENABLED, received, store,
                   graphEntry>>
    /\ MainFrame

\* POST /memories/ : the identifier check, then MEMORY_INSTANCE.add(...)
add_memory ==
    /\ \E i \in DOMAIN inflight :
          /\ Handles(i, "add_memory")
          /\ IF ~inflight[i].has_id THEN Raise400(i) ELSE Forward(i, "add")
    /\ HandlerFrame

\* GET /memories/ : the identifier check, then MEMORY_INSTANCE.get_all(...)
get_all_memories ==
    /\ \E i \in DOMAIN inflight :
          /\ Handles(i, "get_all_memories")
          /\ IF ~inflight[i].has_id THEN Raise400(i) ELSE Forward(i, "get_all")
    /\ HandlerFrame

\* GET /memories/{memory_id} : MEMORY_INSTANCE.get(memory_id)
get_memory ==
    /\ \E i \in DOMAIN inflight :
          /\ Handles(i, "get_memory")
          /\ Forward(i, "get")
    /\ HandlerFrame

\* POST /search : MEMORY_INSTANCE.search(query=..., ...)
search_memories ==
    /\ \E i \in DOMAIN inflight :
          /\ Handles(i, "search_memories")
          /\ Forward(i, "search")
    /\ HandlerFrame

\* PUT /memories/{memory_id} : MEMORY_INSTANCE.update(memory_id, data)
update_memory ==
    /\ \E i \in DOMAIN inflight :
          /\ Handles(i, "update_memory")
          /\ Forward(i, "update")
    /\ HandlerFrame

\* GET /memories/{memory_id}/history/ : MEMORY_INSTANCE.history(memory_id)
memory_history ==
    /\ \E i \in DOMAIN inflight :
          /\ Handles(i, "memory_history")
          /\ Forward(i, "history")
    /\ HandlerFrame

\* DELETE /memories/{memory_id} : MEMORY_INSTANCE.delete(memory_id)
delete_memory ==
    /\ \E i \in DOMAIN inflight :
          /\ Handles(i, "delete_memory")
          /\ Forward(i, "delete")
    /\ HandlerFrame

\* DELETE /memories/ : the identifier check, then
\* MEMORY_INSTANCE.delete_all(...) with the identifiers given
delete_all_memories ==
    /\ \E i \in DOMAIN inflight :
          /\ Handles(i, "delete_all_memories")
          /\ IF ~inflight[i].has_id THEN Raise400(i) ELSE Forward(i, "delete_all")
    /\ HandlerFrame

\* POST /reset/ : MEMORY_INSTANCE.reset()
reset_memory ==
    /\ \E i \in DOMAIN inflight :
          /\ Handles(i, "reset_memory")
          /\ Forward(i, "reset")
    /\ HandlerFrame

\* what an engine call can hand back, as far as the encoding of the answer
\* tells results apart: "plain" is JSON as it stands, "nan" holds a NaN or
\* infinite float inside dicts and lists only, "nan_in_tuple" holds one
\* inside a tuple, "datetime" holds a datetime
Results == {"plain", "nan", "nan_in_tuple", "datetime"}

\* clean_nan_values: descends dicts and lists, turns NaN and infinite floats
\* into None, and returns every other object as it is
clean_nan_values(obj) == IF obj = "nan" THEN "plain" ELSE obj

\* the routes whose handler passes the engine's result through
\* clean_nan_values
CleaningRoutes ==
    {"add_memory", "get_memory", "search_memories", "update_memory",
     "memory_history"}

\* the routes whose handler answers a fixed message
MessageRoutes == {"delete_memory", "delete_all_memories", "reset_memory"}

\* the status a handler ends with once its engine call is over. An exception
\* of the call is turned into 500 by except Exception. add_memory builds
\* JSONResponse(content=...) inside its try block, where a datetime and a
\* NaN both fail to encode; the other handlers return the value and the
\* framework encodes it, converting datetimes and tuples and failing on a
\* NaN
StatusOf(route, outcome, result) ==
    IF outcome = "raise" THEN "500"
    ELSE IF route \in MessageRoutes THEN "200"
    ELSE IF route = "add_memory"
    THEN IF clean_nan_values(result) = "plain" THEN "200" ELSE "500"
    ELSE IF route \in CleaningRoutes
    THEN IF clean_nan_values(result) \in {"plain", "datetime"}
         THEN "200" ELSE "500"
    ELSE IF result \in {"plain", "datetime"} THEN "200" ELSE "500"

\* the stores an engine call can leave behind. The engine is the mem0
\* library: add may add, change and drop memories, update and delete touch
\* the memory named, delete_all drops the memories of the identifiers given
\* and keeps the others, reset drops all; a call that raises may have done
\* any part of its work
EngineEffects(method, memory_id, outcome) ==
    CASE method = "add" -> [MemoryIds -> {"absent", "stored", "updated"}]
      [] method = "update" ->
            {store} \cup
            (IF store[memory_id] # "absent"
             THEN {[store EXCEPT ![memory_id] = "updated"]} ELSE {})
      [] method = "delete" ->
            {[store EXCEPT ![memory_id] = "absent"]} \cup
            (IF outcome = "raise" THEN {store} ELSE {})
      [] method = "delete_all" ->
            {s \in [MemoryIds -> {"absent", "stored", "updated"}] :
                \A m \in MemoryIds : s[m] \in {store[m], "absent"}}
      [] method = "reset" ->
            {EmptyStore} \cup (IF outcome = "raise" THEN {store} ELSE {})
      [] OTHER -> {store}

\* the engine method each route calls
MethodOf(route) ==
    CASE route = "add_memory" -> "add"
      [] route = "get_all_memories" -> "get_all"
      [] route = "get_memory" -> "get"
      [] route = "search_memories" -> "search"
      [] route = "update_memory" -> "update"
      [] route = "memory_history" -> "history"
      [] route = "delete_memory" -> "delete"
      [] route = "delete_all_memories" -> "delete_all"
      [] route = "reset_memory" -> "reset"

\* the engine call of request i ends, by a return or an exception, and the
\* handler runs on to its own return or raise. With the graph store enabled
\* add hands its graph payload to whatever GraphMemory.add holds, unless it
\* raised before that
EngineCallEnds ==
    /\ mainPc = "serving"
    /\ \E i \in DOMAIN inflight, outcome \in {"ok", "raise"}, result \in Results :
          /\ inflight[i].stage = "called"
          /\ store' \in EngineEffects(MethodOf(inflight[i].route),
                                      inflight[i].memory_id, outcome)
          /\ graphEntry' \in
                IF inflight[i].route = "add_memory" /\ GRAPH_STORE_ENABLED
                THEN {GraphMemory_add} \cup
                     (IF outcome = "raise" THEN {graphEntry} ELSE {})
                ELSE {graphEntry}
          /\ inflight' =
                [inflight EXCEPT
                    ![i].stage = "ended",
                    ![i].status = StatusOf(inflight[i].route, outcome, result)]
    /\ UNCHANGED <<mainPc, API_KEY, GRAPH_STORE_ENABLED, received, response,
                   forwarded, engineCall>>
    /\ MainFrame

\* back on the event loop the answer of request i is sent
SendResponse ==
    /\ mainPc = "serving"
    /\ \E i \in DOMAIN inflight :
          /\ inflight[i].stage = "ended"
          /\ response' = inflight[i].status
          /\ inflight' = WithoutRequest(i)
    /\ UNCHANGED <<mainPc, API_KEY, GRAPH_STORE_ENABLED, received, forwarded,
                   engineCall, store, graphEntry>>
    /\ MainFrame

\* GET / : no dependency, no engine call, a redirect to /docs
home ==
    /\ mainPc = "serving"
    /\ received < MaxRequests
    /\ received' = received + 1
    /\ response' = "307"
    /\ UNCHANGED <<mainPc, API_KEY, GRAPH_STORE_ENABLED, inflight, forwarded,
                   engineCall, store, graphEntry>>
    /\ MainFrame

(***************************************************************************)
(* Specification SpecMain: the service from the import of main.py on       *)
(***************************************************************************)
InitMain ==
    /\ SanIdle /\ QueryIdle /\ GraphIdle /\ InstallIdle
    /\ mainPc = "import"
    /\ API_KEY = "unset"
    /\ GRAPH_STORE_ENABLED = FALSE
    /\ received = 0
    /\ inflight = <<>>
    /\ response = "none"
    /\ forwarded = 0
    /\ engineCall = "none"
    /\ store = EmptyStore
    /\ graphEntry = Absent

NextMain ==
    \/ LoadConfig
    \/ CreateMemoryAndApp
    \/ ResolveDependencies
    \/ add_memory
    \/ get_all_memories
    \/ get_memory
    \/ search_memories
    \/ update_memory
    \/ memory_history
    \/ delete_memory
    \/ delete_all_memories
    \/ reset_memory
    \/ EngineCallEnds
    \/ SendResponse
    \/ home

SpecMain == InitMain /\ [][NextMain]_vars

\* C9: the installer has run at start-up before requests are served: no
\* handler forwards a request to the memory engine, and no graph payload
\* reaches the original ingestion entry point, before the method slots are
\* rebound to the sanitizing wrappers.
C9_PatchedBeforeServing ==
    /\ forwarded > 0 => IsPatched(GraphMemory_add) /\ IsPatched(Neo4jGraph_query)
    /\ graphEntry # Original

(***************************************************************************)
(* Specification SpecSan: the sanitizer applied, then applied to its own   *)
(* result                                                                  *)
(***************************************************************************)
InitSan ==
    /\ QueryIdle /\ GraphIdle /\ InstallIdle /\ MainIdle
    /\ relationship_type \in Strings(Alphabet, MaxLen)
    /\ sanitized = <<>>
    /\ resanitized = <<>>
    /\ sanPc = "input"

Sanitize ==
    /\ sanPc = "input"
    /\ sanitized' = sanitize_relationship_type(relationship_type)
    /\ sanPc' = "once"
    /\ UNCHANGED <<relationship_type, resanitized>>
    /\ UNCHANGED <<queryVars, graphVars, installVars, mainVars>>

SanitizeAgain ==
    /\ sanPc = "once"
    /\ resanitized' = sanitize_relationship_type(sanitized)
    /\ sanPc' = "twice"
    /\ UNCHANGED <<relationship_type, sanitized>>
    /\ UNCHANGED <<queryVars, graphVars, installVars, mainVars>>

NextSan == Sanitize \/ SanitizeAgain

SpecSan == InitSan /\ [][NextSan]_vars

\* C1: for every non-empty input, the sanitizer's result has none of the
\* characters ':' '/' '\' ' ' '-', no '__', and no leading or trailing '_'.
C1_TokenInvariantHolds ==
    (sanPc # "input" /\ relationship_type # <<>>) => TokenInvariant(sanitized)

C1_Witness ==
    /\ sanPc = "once"
    /\ relationship_type = <<":", "a", "-", "_">>
    /\ sanitized = <<"a">>

\* C2: the sanitizer is idempotent: applying it to its own result returns
\* that result, for every input including the empty string.
C2_Idempotent ==
    sanPc = "twice" => resanitized = sanitized

C2_Witness ==
    /\ sanPc = "twice"
    /\ relationship_type = <<"/", "a", " ", "a">>
    /\ sanitized = <<"a", "_", "a">>
    /\ resanitized = sanitized

====
